---------------------------- MODULE Spec2Model ----------------------------
(***************************************************************************)
(* Model of the Rao-Blackwellized particle filter engines of               *)
(* src/include/rbpf.h: rbpf_hmm and rbpf_kalman (constructor, filter,      *)
(* getLogCondLike, getExpectations).                                       *)
(*                                                                         *)
(* A double is modelled exactly (no rounding) as a record                  *)
(*     [k |-> "fin" | "ninf" | "pinf" | "nan", n |-> Int, d |-> Nat]       *)
(* with the IEEE-754 rules for the infinities and NaN.  A double that      *)
(* holds a logarithm (a log-weight, a log-density, a log-likelihood) is    *)
(* the record of its antilogarithm n/d > 0, logarithms taken to base 2:    *)
(* adding two logarithms multiplies the fractions, std::exp and std::log   *)
(* move between the two readings of the record.                            *)
(***************************************************************************)
EXTENDS Integers, Sequences, FiniteSets, TLC

\* number of particles (template parameter nparts)
nparts == 2
\* largest resampling schedule handed to the constructor
MaxRs == 3
\* number of filter calls made on one engine
MaxCalls == 2
\* largest |k| for which a logarithm k is turned back into an integer
MaxExp == 2

Parts == 1..nparts

\* bits of unsigned int (m_now, m_rs), scaled down from 32
UIntBits == 4

RECURSIVE GCD(_, _)
GCD(a, b) == IF b = 0 THEN a ELSE GCD(b, a % b)

Abs(x) == IF x < 0 THEN -x ELSE x

RECURSIVE Pow2(_)
Pow2(e) == IF e = 0 THEN 1 ELSE 2 * Pow2(e - 1)

\* unsigned int arithmetic is modulo 2^UIntBits
UIntModulus == Pow2(UIntBits)

\* the finite double n/d (d > 0), in lowest terms
Fin(n, d) ==
    LET g == GCD(Abs(n), d)
    IN  [k |-> "fin", n |-> n \div g, d |-> d \div g]

NaN == [k |-> "nan", n |-> 0, d |-> 1]
PInf == [k |-> "pinf", n |-> 0, d |-> 1]
NInf == [k |-> "ninf", n |-> 0, d |-> 1]

\* the logarithm whose value is the integer e
LogInt(e) == IF e >= 0 THEN Fin(Pow2(e), 1) ELSE Fin(1, Pow2(-e))

\* the integer value of a finite logarithm that has one
ILog(a) ==
    IF a.d = 1
    THEN CHOOSE e \in 0..MaxExp : Pow2(e) = a.n
    ELSE -(CHOOSE e \in 0..MaxExp : Pow2(e) = a.d /\ a.n = 1)

\* sign of a finite logarithm
LSign(a) == IF a.n > a.d THEN 1 ELSE IF a.n < a.d THEN -1 ELSE 0

---------------------------------------------------------------------------
\* double arithmetic on logarithms

\* a + b
LAdd(a, b) ==
    IF a.k = "nan" \/ b.k = "nan" THEN NaN
    ELSE IF a.k = "pinf" THEN (IF b.k = "ninf" THEN NaN ELSE PInf)
    ELSE IF a.k = "ninf" THEN (IF b.k = "pinf" THEN NaN ELSE NInf)
    ELSE IF b.k = "pinf" THEN PInf
    ELSE IF b.k = "ninf" THEN NInf
    ELSE Fin(a.n * b.n, a.d * b.d)

\* -a
LNeg(a) ==
    IF a.k = "nan" THEN NaN
    ELSE IF a.k = "pinf" THEN NInf
    ELSE IF a.k = "ninf" THEN PInf
    ELSE [k |-> "fin", n |-> a.d, d |-> a.n]

\* a - b
LSub(a, b) == LAdd(a, LNeg(b))

\* sign of a logarithm that is not NaN
LSgn(a) == IF a.k = "pinf" THEN 1 ELSE IF a.k = "ninf" THEN -1 ELSE LSign(a)

\* a * b
LMul(a, b) ==
    IF a.k = "nan" \/ b.k = "nan" THEN NaN
    ELSE IF a.k = "fin" /\ b.k = "fin" THEN LogInt(ILog(a) * ILog(b))
    ELSE IF LSgn(a) * LSgn(b) = 0 THEN NaN
    ELSE IF LSgn(a) * LSgn(b) > 0 THEN PInf
    ELSE NInf

\* a > b
LGt(a, b) ==
    IF a.k = "nan" \/ b.k = "nan" THEN FALSE
    ELSE IF a.k = "pinf" THEN b.k # "pinf"
    ELSE IF a.k = "ninf" THEN FALSE
    ELSE IF b.k = "ninf" THEN TRUE
    ELSE IF b.k = "pinf" THEN FALSE
    ELSE a.n * b.d > b.n * a.d

\* a < b
LLt(a, b) == LGt(b, a)

\* std::exp: from a logarithm to the number
Exp(a) == IF a.k = "ninf" THEN Fin(0, 1) ELSE a

\* std::log and Eigen's array().log(): from a number to its logarithm
Log(x) ==
    IF x.k = "nan" \/ x.k = "ninf" THEN NaN
    ELSE IF x.k = "pinf" THEN PInf
    ELSE IF x.n < 0 THEN NaN
    ELSE IF x.n = 0 THEN NInf
    ELSE x

---------------------------------------------------------------------------
\* double arithmetic on plain numbers

\* sign of a number that is not NaN
Sgn(x) ==
    IF x.k = "pinf" THEN 1
    ELSE IF x.k = "ninf" THEN -1
    ELSE IF x.n > 0 THEN 1 ELSE IF x.n < 0 THEN -1 ELSE 0

\* x + y
Plus(x, y) ==
    IF x.k = "nan" \/ y.k = "nan" THEN NaN
    ELSE IF x.k = "pinf" THEN (IF y.k = "ninf" THEN NaN ELSE PInf)
    ELSE IF x.k = "ninf" THEN (IF y.k = "pinf" THEN NaN ELSE NInf)
    ELSE IF y.k # "fin" THEN y
    ELSE Fin(x.n * y.d + y.n * x.d, x.d * y.d)

\* x * y
Times(x, y) ==
    IF x.k = "nan" \/ y.k = "nan" THEN NaN
    ELSE IF x.k = "fin" /\ y.k = "fin" THEN Fin(x.n * y.n, x.d * y.d)
    ELSE IF Sgn(x) * Sgn(y) = 0 THEN NaN
    ELSE IF Sgn(x) * Sgn(y) > 0 THEN PInf
    ELSE NInf

\* x / y, for a divisor that is never a negative zero
Div(x, y) ==
    IF x.k = "nan" \/ y.k = "nan" THEN NaN
    ELSE IF y.k # "fin" THEN (IF x.k = "fin" THEN Fin(0, 1) ELSE NaN)
    ELSE IF y.n = 0
         THEN (IF Sgn(x) = 0 THEN NaN ELSE IF Sgn(x) > 0 THEN PInf ELSE NInf)
    ELSE IF x.k # "fin"
         THEN (IF Sgn(x) * Sgn(y) > 0 THEN PInf ELSE NInf)
    ELSE IF y.n > 0 THEN Fin(x.n * y.d, x.d * y.n)
    ELSE Fin(-(x.n * y.d), x.d * (-y.n))

---------------------------------------------------------------------------
\* The user's model: the pure virtual members of the two classes, here the
\* symmetric random-walk model on three points that a caller derives.

\* values of the sampled state component x2
X2 == {-1, 0, 1}
\* observations; 1 is impossible when x2 = -1 and 2 is impossible for every x2
Obs == {0, 1, 2}
\* observations outside the model's range, on which its formulas are 0/0:
\* 3 puts NaN into the proposal densities logQ1Ev and logQEv, 4 into the inner
\* filter's log conditional likelihood
NaNObs == {3, 4}
\* the functionals h(x1-filter vector, x2) a caller may pass: the identity on x2
\* and the inner filter's vector
FsChoices == {<< >>, <<"x2", "vec">>}

\* the samples q1Samp(y1) may return
q1Samp(y1) == X2

\* the samples qSamp(x2tm1, yt) may return
qSamp(x2tm1, yt) == {x \in X2 : Abs(x - x2tm1) <= 1}

logMuEv(x21) == LogInt(-Abs(x21))

logQ1Ev(x21, y1) == IF y1 = 3 THEN NaN ELSE LogInt(-1)

logFEv(x2t, x2tm1) == LogInt(-Abs(x2t - x2tm1))

logQEv(x2t, x2tm1, yt) == IF yt = 3 THEN NaN ELSE LogInt(-1)

\* hmm<dimnss,dimy>(initHMMProbVec(x21), initHMMTransMat(x21)), and
\* kalman<dimnss,dimobs>(initKalmanMean(x21), initKalmanVar(x21))
initInner(x21) == [like |-> LogInt(0), vec |-> Abs(x21)]

\* updateHMM / updateKalman: advances the inner filter by one observation and
\* sets the value its getLogCondLike() returns
updateInner(aModel, yt, x2t) ==
    [like |-> IF yt = 4 THEN NaN
              ELSE IF yt = 2 THEN NInf
              ELSE IF yt = 1 THEN (IF x2t = -1 THEN NInf ELSE LogInt(-1))
              ELSE LogInt(-Abs(x2t)),
     vec  |-> (aModel.vec + yt) % 2]

\* h(m_p_innerMods[prtcl].getFilterVec(), m_p_samps[prtcl]), a 1 x 1 matrix
hEval(h, aModel, x2t) ==
    IF h = "x2" THEN Fin(x2t, 1) ELSE Fin(aModel.vec, 1)

---------------------------------------------------------------------------
\* Helpers of filter

RECURSIVE MaxIdx(_, _)
MaxIdx(w, n) ==
    IF n = 1 THEN 1
    ELSE LET r == MaxIdx(w, n - 1)
         IN  IF LLt(w[r], w[n]) THEN n ELSE r

\* *std::max_element(m_logUnNormWeights.begin(), m_logUnNormWeights.end())
MaxElement(w) == w[MaxIdx(w, nparts)]

RECURSIVE SumTo(_, _)
\* sum += f[p] for p = 1 .. n, starting from 0.0
SumTo(f, n) == IF n = 0 THEN Fin(0, 1) ELSE Plus(SumTo(f, n - 1), f[n])

\* sumexp: the loop  sumexp += std::exp(w[p] - m)
SumExp(w, m) == SumTo([p \in Parts |-> Exp(LSub(w[p], m))], nparts)

\* m + std::log(sumexp) - std::log(static_cast<double>(nparts))
FirstLikeValue(w, m) ==
    LSub(LAdd(m, Log(SumExp(w, m))), Log(Fin(nparts, 1)))

\* m1 + std::log(sumexpnumer) - m2 - std::log(sumexpdenom)
LaterLikeValue(w, mOne, mTwo, sumDenom) ==
    LSub(LSub(LAdd(mOne, Log(SumExp(w, mOne))), mTwo), Log(sumDenom))

\* the body of  for(auto & h : fs)  for one h: numer / denom
Expectation(h, mods, samps, w) ==
    LET m     == MaxElement(w)
        tmp   == [p \in Parts |->
                     Exp(LAdd(Log(hEval(h, mods[p], samps[p])), LSub(w[p], m)))]
        numer == SumTo(tmp, nparts)
        denom == SumTo([p \in Parts |-> Exp(LSub(w[p], m))], nparts)
    IN  Div(numer, denom)

\* the first-step weight (lines 215 and 525)
FirstWeight(aModel, x21, y1) ==
    LSub(LAdd(aModel.like, logMuEv(x21)), logQ1Ev(x21, y1))

\* the later-step weight of rbpf_kalman (line 583):
\* w += like * logFEv(...) - logQEv(...)
KalmanWeight(w, aModel, newX2Samp, x2tm1, yt) ==
    LAdd(w, LSub(LMul(aModel.like, logFEv(newX2Samp, x2tm1)),
                 logQEv(newX2Samp, x2tm1, yt)))

\* the later-step value rbpf_hmm computes into logUnNormWeightUpdate (line 270)
HmmWeightUpdate(aModel, newX2Samp, x2tm1, yt) ==
    LSub(LAdd(aModel.like, logFEv(newX2Samp, x2tm1)),
         logQEv(newX2Samp, x2tm1, yt))

\* ResampGate with the gate taken on the count before this call
ResampGateStale(now, rs) == (now % UIntModulus) % rs = 0

\* (m_now + 1) % m_rs == 0, in unsigned int arithmetic
ResampGate(now, rs) == ((now + 1) % UIntModulus) % rs = 0

\* the indices m_resampler may draw: those of positive weight
ResampSupport(w) ==
    LET m   == MaxElement(w)
        e   == [p \in Parts |-> Exp(LSub(w[p], m))]
        pos == {p \in Parts : e[p].k = "pinf" \/ (e[p].k = "fin" /\ e[p].n > 0)}
    IN  IF pos = {} \/ (\E p \in Parts : e[p].k = "nan") THEN Parts ELSE pos

---------------------------------------------------------------------------
\* State

VARIABLES
    variant,                \* "hmm": an rbpf_hmm object, "kalman": an rbpf_kalman
    fs,                     \* the functionals the caller passes to every call
    m_now, m_lastLogCondLike, m_rs, m_p_innerMods, m_p_samps,
    m_logUnNormWeights, m_expectations,
    m_logLastCondLike,      \* the name line 536 assigns (rbpf_kalman)
    m_lastCondLike,         \* the name line 596 assigns (rbpf_kalman)
    pc,                     \* where the running call of filter is
    data,                   \* filter's argument
    ii, m1, m2, sumexpdenom,    \* filter's locals
    logUnNormWeightUpdate,  \* the name line 270 assigns (rbpf_hmm)
    calls,                  \* history: calls of filter that have returned
    hist,                   \* history: the phases of the latest call, in order
    resampled,              \* history: the latest call ran the resampler
    wEntry                  \* history: the weights a later call began with

vars == <<variant, fs, m_now, m_lastLogCondLike, m_rs, m_p_innerMods,
          m_p_samps, m_logUnNormWeights, m_expectations, m_logLastCondLike,
          m_lastCondLike, pc, data, ii, m1, m2, sumexpdenom,
          logUnNormWeightUpdate, calls, hist, resampled, wEntry>>

engine == <<variant, fs, m_rs>>
likes == <<m_lastLogCondLike, m_logLastCondLike, m_lastCondLike>>
ensemble == <<m_p_innerMods, m_p_samps, m_logUnNormWeights>>
locals == <<data, ii, m1, m2, sumexpdenom, logUnNormWeightUpdate>>

\* what the uninitialised array m_logUnNormWeights may hold after the
\* constructor, whose std::fill names no value
Indeterminate == {LogInt(0), NaN}

\* the constructors (lines 188-195 and 496-503), called with a resamp_sched
\* of the set rss: m_rs(resamp_sched) stores it as it comes
Constructed(rss) ==
    /\ variant \in {"hmm", "kalman"}
    /\ fs \in FsChoices
    /\ m_now = 0
    /\ m_lastLogCondLike = LogInt(0)
    /\ m_rs \in rss
    /\ m_p_innerMods = [p \in Parts |-> [like |-> LogInt(0), vec |-> 0]]
    /\ m_p_samps = [p \in Parts |-> 0]
    /\ \E v \in Indeterminate : m_logUnNormWeights = [p \in Parts |-> v]
    /\ m_expectations = << >>
    /\ m_logLastCondLike = LogInt(0)
    /\ m_lastCondLike = LogInt(0)
    /\ pc = "idle"
    /\ data = 0
    /\ ii = 1
    /\ m1 = NInf
    /\ m2 = NInf
    /\ sumexpdenom = Fin(0, 1)
    /\ logUnNormWeightUpdate = LogInt(0)
    /\ calls = 0
    /\ hist = << >>
    /\ resampled = FALSE
    /\ wEntry = [p \in Parts |-> LogInt(0)]

\* an engine constructed with a resampling schedule of 1 .. MaxRs
Init == Constructed(1..MaxRs)

---------------------------------------------------------------------------
\* filter, one action per phase

\* a call of filter begins, with an observation of ys: the branch on m_now
\* (lines 202, 258; 510, 568) and the locals declared before the particle loop
FilterEnterOn(ys, limit) ==
    /\ pc = "idle"
    /\ calls < limit
    /\ \E y \in ys : data' = y
    /\ ii' = 1
    /\ m1' = NInf
    /\ IF m_now = 0
       THEN /\ pc' = "first_loop"
            /\ UNCHANGED <<m2, sumexpdenom, wEntry>>
       ELSE /\ pc' = "later_loop"
            /\ m2' = MaxElement(m_logUnNormWeights)
            /\ sumexpdenom' = Fin(0, 1)
            /\ wEntry' = m_logUnNormWeights
    /\ hist' = << >>
    /\ resampled' = FALSE
    /\ UNCHANGED <<engine, m_now, likes, ensemble, m_expectations,
                   logUnNormWeightUpdate, calls>>

\* filter(data, fs) called on an observation of the model's range
FilterEnter == FilterEnterOn(Obs, MaxCalls)

\* one call more than unsigned int has values
WrapCalls == UIntModulus + 1

\* filter(data, fs) called on an engine that lives for WrapCalls calls
FilterEnterLong == FilterEnterOn(Obs, WrapCalls)

\* filter(data, fs) called on an observation that makes a callback return NaN
FilterEnterNaN == FilterEnterOn(NaNObs, MaxCalls)

\* LoopNext with a loop bound that is one short
LoopNextShort(p, loop, after) == IF p >= nparts - 1 THEN after ELSE loop

\* the pc the particle loop leaves for after particle p
LoopNext(p, loop, after) == IF p = nparts THEN after ELSE loop

\* one pass of the first call's particle loop (lines 208-220, 518-530)
FirstParticle ==
    /\ pc = "first_loop"
    /\ \E x \in q1Samp(data) :
         LET aModel == updateInner(initInner(x), data, x)
             w      == FirstWeight(aModel, x, data)
         IN  /\ m_p_samps' = [m_p_samps EXCEPT ![ii] = x]
             /\ m_p_innerMods' = [m_p_innerMods EXCEPT ![ii] = aModel]
             /\ m_logUnNormWeights' = [m_logUnNormWeights EXCEPT ![ii] = w]
             /\ m1' = IF LGt(w, m1) THEN w ELSE m1
    /\ ii' = ii + 1
    /\ pc' = LoopNext(ii, "first_loop", "first_like")
    /\ hist' = Append(hist, "particle")
    /\ UNCHANGED <<engine, m_now, likes, m_expectations, data, m2,
                   sumexpdenom, logUnNormWeightUpdate, calls, resampled, wEntry>>

\* log p(y1) (lines 222-226, 532-536)
FirstLike ==
    /\ pc = "first_like"
    /\ IF variant = "hmm"
       THEN /\ m_lastLogCondLike' = FirstLikeValue(m_logUnNormWeights, m1)
            /\ UNCHANGED <<m_logLastCondLike, m_lastCondLike>>
       ELSE /\ m_logLastCondLike' = FirstLikeValue(m_logUnNormWeights, m1)
            /\ UNCHANGED <<m_lastLogCondLike, m_lastCondLike>>
    /\ pc' = "first_expect"
    /\ hist' = Append(hist, "like")
    /\ UNCHANGED <<engine, m_now, ensemble, m_expectations, locals, calls,
                   resampled, wEntry>>

\* the expectations of one call (lines 228-249, 287-307, 538-559, 598-618)
Expectations ==
    [f \in 1..Len(fs) |->
        Expectation(fs[f], m_p_innerMods, m_p_samps, m_logUnNormWeights)]

FirstExpect ==
    /\ pc = "first_expect"
    /\ m_expectations' = Expectations
    /\ pc' = "first_resample"
    /\ hist' = Append(hist, "expect")
    /\ UNCHANGED <<engine, m_now, likes, ensemble, locals, calls, resampled, wEntry>>

\* m_resampler.resampLogWts(m_p_innerMods, m_p_samps, m_logUnNormWeights):
\* position i receives a copy of position a[i], every weight becomes -log N
resampLogWts(a) ==
    /\ m_p_innerMods' = [p \in Parts |-> m_p_innerMods[a[p]]]
    /\ m_p_samps' = [p \in Parts |-> m_p_samps[a[p]]]
    /\ m_logUnNormWeights' = [p \in Parts |-> LNeg(Log(Fin(nparts, 1)))]

\* MaybeResample with the inner filters and the samples resampled by two calls,
\* each drawing its own indices
MaybeResampleApart ==
    IF ResampGate(m_now, m_rs)
    THEN \E a \in [Parts -> ResampSupport(m_logUnNormWeights)] :
         \E b \in [Parts -> ResampSupport(m_logUnNormWeights)] :
            /\ m_p_innerMods' = [p \in Parts |-> m_p_innerMods[a[p]]]
            /\ m_p_samps' = [p \in Parts |-> m_p_samps[b[p]]]
            /\ m_logUnNormWeights' = [p \in Parts |-> LNeg(Log(Fin(nparts, 1)))]
            /\ resampled' = TRUE
            /\ hist' = Append(hist, "resample")
    ELSE UNCHANGED <<ensemble, resampled, hist>>

\* what the test (m_now + 1) % m_rs == 0 may yield when it yields a value: with
\* m_rs = 0 the remainder is undefined, and a build that does not trap on it
\* (ModuloTrap) takes either branch
GateOutcomes(now, rs) ==
    IF rs = 0 THEN BOOLEAN ELSE {ResampGate(now, rs)}

\* the gated call of the resampler (lines 251-253, 309-311, 561-563, 620-622)
MaybeResample ==
    \E gate \in GateOutcomes(m_now, m_rs) :
    IF gate
    THEN \E a \in [Parts -> ResampSupport(m_logUnNormWeights)] :
            /\ resampLogWts(a)
            /\ resampled' = TRUE
            /\ hist' = Append(hist, "resample")
    ELSE UNCHANGED <<ensemble, resampled, hist>>

FirstResample ==
    /\ pc = "first_resample"
    /\ MaybeResample
    /\ pc' = "first_advance"
    /\ UNCHANGED <<engine, m_now, likes, m_expectations, locals, calls, wEntry>>

\* filter returns: its argument and locals no longer exist
LocalsGone ==
    /\ data' = 0
    /\ ii' = 1
    /\ m1' = NInf
    /\ m2' = NInf
    /\ sumexpdenom' = Fin(0, 1)
    /\ logUnNormWeightUpdate' = LogInt(0)

\* m_now ++ (lines 256, 314, 566, 625), the last statement of filter
Advance ==
    /\ m_now' = (m_now + 1) % UIntModulus
    /\ calls' = calls + 1
    /\ pc' = "idle"
    /\ hist' = Append(hist, "advance")
    /\ LocalsGone
    /\ UNCHANGED <<engine, likes, ensemble, m_expectations, resampled,
                   wEntry>>

FirstAdvance ==
    /\ pc = "first_advance"
    /\ Advance

\* one pass of a later call's particle loop (lines 265-279, 575-590)
LaterParticle ==
    /\ pc = "later_loop"
    /\ \E newX2Samp \in qSamp(m_p_samps[ii], data) :
         LET aModel == updateInner(m_p_innerMods[ii], data, newX2Samp)
             w      == IF variant = "hmm"
                       THEN m_logUnNormWeights[ii]
                       ELSE KalmanWeight(m_logUnNormWeights[ii], aModel,
                                         newX2Samp, m_p_samps[ii], data)
         IN  /\ m_p_innerMods' = [m_p_innerMods EXCEPT ![ii] = aModel]
             /\ sumexpdenom' =
                    Plus(sumexpdenom, Exp(LSub(m_logUnNormWeights[ii], m2)))
             /\ logUnNormWeightUpdate' =
                    IF variant = "hmm"
                    THEN HmmWeightUpdate(aModel, newX2Samp, m_p_samps[ii], data)
                    ELSE logUnNormWeightUpdate
             /\ m_logUnNormWeights' = [m_logUnNormWeights EXCEPT ![ii] = w]
             /\ m1' = IF LGt(w, m1) THEN w ELSE m1
             /\ m_p_samps' = [m_p_samps EXCEPT ![ii] = newX2Samp]
    /\ ii' = ii + 1
    /\ pc' = LoopNext(ii, "later_loop", "later_like")
    /\ hist' = Append(hist, "particle")
    /\ UNCHANGED <<engine, m_now, likes, m_expectations, data, m2, calls,
                   resampled, wEntry>>

\* log p(y_t | y_{1:t-1}) (lines 281-285, 592-596)
LaterLike ==
    /\ pc = "later_like"
    /\ IF variant = "hmm"
       THEN /\ m_lastLogCondLike' =
                   LaterLikeValue(m_logUnNormWeights, m1, m2, sumexpdenom)
            /\ UNCHANGED <<m_logLastCondLike, m_lastCondLike>>
       ELSE /\ m_lastCondLike' =
                   LaterLikeValue(m_logUnNormWeights, m1, m2, sumexpdenom)
            /\ UNCHANGED <<m_lastLogCondLike, m_logLastCondLike>>
    /\ pc' = "later_expect"
    /\ hist' = Append(hist, "like")
    /\ UNCHANGED <<engine, m_now, ensemble, m_expectations, locals, calls,
                   resampled, wEntry>>

LaterExpect ==
    /\ pc = "later_expect"
    /\ m_expectations' = Expectations
    /\ pc' = "later_resample"
    /\ hist' = Append(hist, "expect")
    /\ UNCHANGED <<engine, m_now, likes, ensemble, locals, calls, resampled, wEntry>>

LaterResample ==
    /\ pc = "later_resample"
    /\ MaybeResample
    /\ pc' = "later_advance"
    /\ UNCHANGED <<engine, m_now, likes, m_expectations, locals, calls, wEntry>>

LaterAdvance ==
    /\ pc = "later_advance"
    /\ Advance

\* the remainder (m_now + 1) % m_rs with m_rs = 0 on a build whose integer
\* division traps: the process ends inside filter, at the gate
ModuloTrap ==
    /\ pc \in {"first_resample", "later_resample"}
    /\ m_rs = 0
    /\ pc' = "trapped"
    /\ UNCHANGED <<engine, m_now, likes, ensemble, m_expectations, locals,
                   calls, hist, resampled, wEntry>>

Next ==
    \/ FilterEnter
    \/ FirstParticle
    \/ FirstLike
    \/ FirstExpect
    \/ FirstResample
    \/ FirstAdvance
    \/ LaterParticle
    \/ LaterLike
    \/ LaterExpect
    \/ LaterResample
    \/ LaterAdvance

Spec == Init /\ [][Next]_vars

\* engines constructed with any resampling schedule from 0 on
InitAnyRs == Constructed(0..MaxRs)

NextAnyRs ==
    \/ Next
    \/ ModuloTrap

SpecAnyRs == InitAnyRs /\ [][NextAnyRs]_vars

\* callers that also pass observations on which a callback returns NaN
NextNaN ==
    \/ Next
    \/ FilterEnterNaN

SpecNaN == Init /\ [][NextNaN]_vars

\* a long-lived engine: filter called until m_now has had every value of
\* unsigned int
NextWrap ==
    \/ FilterEnterLong
    \/ FirstParticle
    \/ FirstLike
    \/ FirstExpect
    \/ FirstResample
    \/ FirstAdvance
    \/ LaterParticle
    \/ LaterLike
    \/ LaterExpect
    \/ LaterResample
    \/ LaterAdvance

\* it resamples on every call, which keeps its weights in a small range
InitWrap == Constructed({1})

SpecWrap == InitWrap /\ [][NextWrap]_vars

\* getLogCondLike() (lines 320-324, 631-635)
getLogCondLike == m_lastLogCondLike

\* getExpectations() (lines 327-331, 638-642)
getExpectations == m_expectations

---------------------------------------------------------------------------
\* Properties

Idle == pc = "idle"
Returned == pc = "idle" /\ calls >= 1
AtGate == pc \in {"first_resample", "later_resample"}
AtAdvance == pc \in {"first_advance", "later_advance"}

RECURSIVE Repeat(_, _)
Repeat(x, n) == IF n = 0 THEN << >> ELSE Append(Repeat(x, n - 1), x)

\* C2: in every call the phases run in the order: the particle loop over all
\* nparts particles, the likelihood increment, the expectations (from the
\* ensemble as it is before resampling), the resampler if gated, and last the
\* increment of m_now, by one per call; the resampler never starts before the
\* particle loop has done all nparts particles.
C2_PhaseOrder ==
    /\ Returned =>
          hist = Repeat("particle", nparts) \o <<"like", "expect">>
                 \o (IF resampled THEN <<"resample">> ELSE << >>)
                 \o <<"advance">>
    /\ AtGate =>
          /\ hist = Repeat("particle", nparts) \o <<"like", "expect">>
          /\ ii = nparts + 1
          /\ m_expectations = Expectations
    /\ m_now = calls

C2_Witness ==
    /\ Returned /\ calls = 2 /\ resampled
    /\ Len(hist) = nparts + 4
    /\ m_now = 2

\* log sum_i exp(w[i])
LogSumExp(w) == Log(SumTo([p \in Parts |-> Exp(w[p])], nparts))

\* C3: in every pass of a later call's particle loop, on either variant, the
\* stored weight becomes logw[i] + inner[i].lastLogCondLike
\* + log_f(x_new, samples[i]) - log_q(x_new, samples[i], y) with x_new proposed
\* from the previous samples[i], which x_new then replaces.
C3_AdditiveWeightUpdate ==
    [][pc = "later_loop" =>
         /\ m_p_samps'[ii] \in qSamp(m_p_samps[ii], data)
         /\ m_logUnNormWeights'[ii] =
               LSub(LAdd(LAdd(m_logUnNormWeights[ii], m_p_innerMods'[ii].like),
                         logFEv(m_p_samps'[ii], m_p_samps[ii])),
                    logQEv(m_p_samps'[ii], m_p_samps[ii], data))]_vars

\* rbpf_kalman, y1 = 0 and x2 = 0 (weight 1), then y2 = 0 and the proposal 1:
\* the claimed weight is 1 - 1 - 1 + 1 = 0, the stored one 1 + (-1)(-1) + 1 = 3
C3_FailingInput ==
    /\ variant = "kalman" /\ pc = "later_loop" /\ ii = 2 /\ data = 0
    /\ wEntry[1] = LogInt(1)
    /\ m_p_samps[1] = 1
    /\ m_p_innerMods[1].like = LogInt(-1)
    /\ m_logUnNormWeights[1] = LogInt(3)

\* C4: once a later call has computed its likelihood increment, getLogCondLike()
\* is logsumexp of the updated weights minus logsumexp of the weights the call
\* began with.
C4_LikelihoodIncrement ==
    pc \in {"later_expect", "later_resample"} =>
        getLogCondLike = LSub(LogSumExp(m_logUnNormWeights), LogSumExp(wEntry))

\* rbpf_kalman, weights 1 before and 2 after the update: the increment 1 goes
\* to m_lastCondLike and getLogCondLike() still returns the constructor's 0.0
C4_FailingInput ==
    /\ variant = "kalman" /\ pc = "later_expect"
    /\ \A p \in Parts : wEntry[p] = LogInt(1) /\ m_logUnNormWeights[p] = LogInt(2)
    /\ m_lastCondLike = LogInt(1)
    /\ getLogCondLike = LogInt(0)

\* C5: in the first call, once the likelihood is computed, every logw[i] is
\* inner[i].lastLogCondLike + log_mu(x2_i) - log_q1(x2_i, y1) and
\* getLogCondLike() is logsumexp(logw) - log N.
C5_FirstCall ==
    pc \in {"first_expect", "first_resample"} =>
        /\ \A p \in Parts :
              m_logUnNormWeights[p] =
                 LSub(LAdd(m_p_innerMods[p].like, logMuEv(m_p_samps[p])),
                      logQ1Ev(m_p_samps[p], data))
        /\ getLogCondLike =
              LSub(LogSumExp(m_logUnNormWeights), Log(Fin(nparts, 1)))

\* rbpf_kalman, y1 = 0 and every x2 = 0: log p(y1) = 1 goes to
\* m_logLastCondLike and getLogCondLike() returns the constructor's 0.0
C5_FailingInput ==
    /\ variant = "kalman" /\ pc = "first_expect" /\ data = 0
    /\ \A p \in Parts : m_p_samps[p] = 0 /\ m_logUnNormWeights[p] = LogInt(1)
    /\ m_logLastCondLike = LogInt(1)
    /\ getLogCondLike = LogInt(0)

\* sum_i h_i exp(logw[i] - m) / sum_i exp(logw[i] - m) over the particles ps,
\* m = max_i logw[i]
WeightedMean(h, ps) ==
    LET m  == MaxElement(m_logUnNormWeights)
        e  == [p \in Parts |->
                 IF p \in ps THEN Exp(LSub(m_logUnNormWeights[p], m))
                 ELSE Fin(0, 1)]
        he == [p \in Parts |->
                 Times(hEval(h, m_p_innerMods[p], m_p_samps[p]), e[p])]
    IN  Div(SumTo(he, nparts), SumTo(e, nparts))

\* C6: with a non-empty functional list, the expectation cached for each h is
\* sum_i h_i exp(logw[i] - m) / sum_i exp(logw[i] - m), whatever the sign of h.
C6_Expectation ==
    (AtGate /\ fs # << >>) =>
        \A f \in 1..Len(fs) :
            getExpectations[f] = WeightedMean(fs[f], Parts)

\* the identity functional, y1 = 0, x2 = -1 for particle 1 and 0 for the others:
\* the weighted mean is negative, the cached expectation is NaN
C6_FailingInput ==
    /\ pc = "first_resample" /\ data = 0 /\ fs = <<"x2", "vec">>
    /\ m_p_samps[1] = -1
    /\ \A p \in Parts \ {1} : m_p_samps[p] = 0
    /\ WeightedMean("x2", Parts).k = "fin"
    /\ WeightedMean("x2", Parts).n < 0
    /\ getExpectations[1] = NaN

Degenerate == \A p \in Parts : m_logUnNormWeights[p] = NInf

\* C7: when a call leaves every weight at -infinity, getLogCondLike() is
\* -infinity, and from then on the weights stay -infinity.
C7_DegenerateTerminal ==
    /\ [](Returned /\ Degenerate => getLogCondLike = NInf)
    /\ [][(calls >= 1 /\ Degenerate) => Degenerate']_vars

\* rbpf_hmm, R >= 2, first observation impossible for every particle
C7_FailingInput ==
    /\ variant = "hmm" /\ Returned /\ calls = 1 /\ m_rs = 2
    /\ Degenerate
    /\ \A p \in Parts : m_p_innerMods[p].like = NInf
    /\ getLogCondLike = NaN

Dead == {p \in Parts : m_logUnNormWeights[p] = NInf}
OneDead ==
    /\ Cardinality(Dead) = 1
    /\ \A p \in Parts \ Dead : m_logUnNormWeights[p].k = "fin"

\* C8: with nparts >= 2, when exactly one weight is -infinity and the others are
\* finite after the weight update, neither the likelihood increment nor any
\* expectation is NaN, and each expectation is the weighted mean over the other
\* particles.
C8_OneDeadParticle ==
    (AtGate /\ OneDead /\ nparts >= 2) =>
        /\ getLogCondLike # NaN
        /\ \A f \in 1..Len(fs) :
              /\ getExpectations[f] # NaN
              /\ getExpectations[f] = WeightedMean(fs[f], Parts \ Dead)

\* rbpf_hmm, the identity functional, y1 = 1, x2 = -1 for particle 1 (weight
\* -infinity) and 0 for the others
C8_FailingInput ==
    /\ variant = "hmm" /\ pc = "first_resample" /\ data = 1
    /\ fs = <<"x2", "vec">>
    /\ Dead = {1} /\ OneDead
    /\ m_p_samps[1] = -1
    /\ \A p \in Parts \ {1} : m_p_samps[p] = 0
    /\ getLogCondLike.k = "fin"
    /\ getExpectations[1] = NaN

\* C9: after a call (here: one that has not resampled), either every inner
\* filter's lastLogCondLike is finite or some logw[i] is -infinity.
C9_FailureReflected ==
    (Returned /\ ~resampled) =>
        \/ \A p \in Parts : m_p_innerMods[p].like.k = "fin"
        \/ \E p \in Parts : m_logUnNormWeights[p] = NInf

\* rbpf_hmm, R = 3, a second observation impossible for every particle
C9_FailingInput ==
    /\ variant = "hmm" /\ Returned /\ calls = 2 /\ m_rs = 3 /\ ~resampled
    /\ \A p \in Parts : m_p_innerMods[p].like = NInf
    /\ \A p \in Parts : m_logUnNormWeights[p].k = "fin"

C11_ZeroPeriodRefused ==
    m_rs = 0 =>
        /\ ~AtGate
        /\ ~AtAdvance
        /\ calls = 0

C11_FailingInput ==
    /\ m_rs = 0
    /\ Returned /\ calls = 2
    /\ hist = Repeat("particle", nparts) \o <<"like", "expect", "advance">>

\* C12: a call of filter during which a callback (or an inner filter's log
\* conditional likelihood) returns NaN ends in an error surfaced to the caller:
\* no weight the call has written is NaN, and the call never gets as far as the
\* resampling gate or its return with the likelihood and the expectations
\* computed as if the step had succeeded.
C12_NaNIsFatal ==
    (data \in NaNObs /\ ~Idle) =>
        /\ \A p \in 1..(ii - 1) : m_logUnNormWeights[p].k # "nan"
        /\ ~AtGate
        /\ ~AtAdvance

C12_FailingInput ==
    /\ variant = "hmm" /\ pc = "first_advance" /\ ~resampled
    /\ data = 3
    /\ \A p \in Parts : m_logUnNormWeights[p].k = "nan"
    /\ getLogCondLike.k = "nan"
    /\ Len(getExpectations) = 2
    /\ \A f \in 1..2 : getExpectations[f].k = "nan"

\* C13: the initialisation branch of filter runs on the first call only: once
\* m_now has left 0 no step brings it back to 0 (m_now counted modulo 2^w), and
\* no call after the first enters the first-call branch.
C13_InitialisedOnce ==
    /\ [][m_now # 0 => m_now' # 0]_vars
    /\ [](calls >= 1 =>
            pc \notin {"first_loop", "first_like", "first_expect",
                       "first_resample", "first_advance"})

C13_FailingInput ==
    /\ calls = UIntModulus
    /\ m_now = 0
    /\ pc = "first_like"
    /\ hist = Repeat("particle", nparts)


=============================================================================
